---------------------------- MODULE Spec2Model ----------------------------
(***************************************************************************)
(* A model of update-dependencies.py, the script that regenerates          *)
(* maven-dependencies.json for de.mediathekview.MediathekView.             *)
(*                                                                         *)
(* Python str values are TLA+ strings; TLC evaluates Len, SubSeq and \o on *)
(* them character by character, so prefix tests, slicing, stripping,       *)
(* splitting and the regular expression are modelled on characters.        *)
(* The model covers the direct mode of main (args.flatpak false).          *)
(***************************************************************************)
EXTENDS Naturals, Sequences, FiniteSets, TLC

VARIABLES
    pc,         \* position of the control flow in main / run_direct / update_dependencies
    manifest,   \* lines of de.mediathekview.MediathekView.yaml
    source,     \* the FlatpakGitSource found in the manifest (or NoSource)
    workdir,    \* the TemporaryDirectory: "none", "exists", "removed"
    cloned,     \* the git clone into working_directory/mediathekview succeeded
    repo,       \* files of working_directory/repo (relative paths), or NoRepo
    building,   \* the mvnw build was started
    log,        \* mvnw.stdout, as lines
    sources,    \* the list update_dependencies returned
    sidecar,    \* maven-dependencies.json on disk
    sidecar0,   \* maven-dependencies.json as it was when the run started
    error,      \* the exception in flight or that ended the run
    exit,       \* how the process ended
    run,        \* number of the run of the script (1 or 2)
    build1,     \* what the build of the first run logged and cached
    output1,    \* what the first run wrote
    arg,        \* argument of a function applied on its own (function specifications)
    ret         \* its result

vars == <<pc, manifest, source, workdir, cloned, repo, building, log, sources,
          sidecar, sidecar0, error, exit, run, build1, output1, arg, ret>>

pipeline == <<manifest, source, workdir, cloned, repo, building, log, sources,
              sidecar, sidecar0, error, exit, run, build1, output1>>

-----------------------------------------------------------------------------
(* Bounds of the model. *)

MaxManifestLines == 4
MaxLogLines == 2
MaxRelLen == 3

-----------------------------------------------------------------------------
(* str helpers *)

SetMin(S) == CHOOSE x \in S : \A y \in S : x <= y
SetMax(S) == CHOOSE x \in S : \A y \in S : x >= y

Char(s, i) == SubSeq(s, i, i)

\* s[i:] with i counted from 1
From(s, i) == IF i > Len(s) THEN "" ELSE SubSeq(s, i, Len(s))

\* str.startswith
StartsWith(s, p) == Len(s) >= Len(p) /\ SubSeq(s, 1, Len(p)) = p

\* str.strip(): whitespace removed at both ends
strip(s) ==
    LET idx == {i \in 1..Len(s) : Char(s, i) # " "}
    IN  IF idx = {} THEN "" ELSE SubSeq(s, SetMin(idx), SetMax(idx))

\* line.split(":", maxsplit=1)[1] of a line that holds a colon
AfterFirstColon(s) ==
    LET idx == {i \in 1..Len(s) : Char(s, i) = ":"}
    IN  From(s, SetMin(idx) + 1)

-----------------------------------------------------------------------------
(* find_mediathekview_source *)

Found(u, c) == [ok |-> TRUE, url |-> u, commit |-> c, error |-> "none"]
Raise(kind) == [ok |-> FALSE, url |-> "", commit |-> "", error |-> kind]

\* The third loop: url and commit start as None (falsy, as "" is) and every
\* "url:" / "commit:" line overwrites its field until both are truthy.
RECURSIVE ScanFields(_, _, _, _)
ScanFields(lines, i, url, commit) ==
    IF i > Len(lines) THEN Raise("LookupError")
    ELSE LET line == strip(lines[i])
             u == IF StartsWith(line, "url:")
                  THEN strip(AfterFirstColon(line)) ELSE url
             c == IF ~StartsWith(line, "url:") /\ StartsWith(line, "commit:")
                  THEN strip(AfterFirstColon(line)) ELSE commit
         IN  IF u # "" /\ c # "" THEN Found(u, c)
             ELSE ScanFields(lines, i + 1, u, c)

\* Each of the three for loops iterates the list `lines` from its first line.
find_mediathekview_source(lines) ==
    IF ~\E i \in 1..Len(lines) : strip(lines[i]) = "- name: mediathekview"
    THEN Raise("LookupError")
    ELSE IF ~\E i \in 1..Len(lines) : strip(lines[i]) = "- type: git"
    THEN Raise("LookupError")
    ELSE ScanFields(lines, 1, "", "")


-----------------------------------------------------------------------------
(* ArtifactUrl.parse_url *)

REPO_BASES ==
    << "https://repo.maven.apache.org/maven2/",
       "https://oss.sonatype.org/content/repositories/snapshots/",
       "https://maven.ej-technologies.com/repository/" >>

Artifact(u, b, r) ==
    [ok |-> TRUE, url |-> u, repo_base_url |-> b, relpath |-> r, error |-> "none"]
NoArtifact(kind) ==
    [ok |-> FALSE, url |-> "", repo_base_url |-> "", relpath |-> "", error |-> kind]

\* A slip in the slice: the base's last character is kept in relpath.
parse_url_keeps_slash(url) ==
    LET hit == {i \in 1..Len(REPO_BASES) : StartsWith(url, REPO_BASES[i])}
    IN  IF hit = {} THEN NoArtifact("ValueError")
        ELSE LET base == REPO_BASES[SetMin(hit)]
             IN  Artifact(url, base, From(url, Len(base)))

\* for base in REPO_BASES: the first base the url starts with; for-else raises
parse_url(url) ==
    LET hit == {i \in 1..Len(REPO_BASES) : StartsWith(url, REPO_BASES[i])}
    IN  IF hit = {} THEN NoArtifact("ValueError")
        ELSE LET base == REPO_BASES[SetMin(hit)]
             IN  Artifact(url, base, From(url, Len(base) + 1))

-----------------------------------------------------------------------------
(* DOWNLOADED_RE and extract_downloaded_artifacts *)

\* "https?://[^ ]+" matches at position k of line
UrlAt(line, k) ==
    \/ /\ StartsWith(From(line, k), "http://")
       /\ k + 7 <= Len(line) /\ Char(line, k + 7) # " "
    \/ /\ StartsWith(From(line, k), "https://")
       /\ k + 8 <= Len(line) /\ Char(line, k + 8) # " "

\* [^ ]+ is greedy: the token runs to the next space or to the end of the line
TokenAt(line, k) ==
    LET sp == {i \in k..Len(line) : Char(line, i) = " "}
    IN  IF sp = {} THEN From(line, k) ELSE SubSeq(line, k, SetMin(sp) - 1)

\* Positions j of a ": " that DOWNLOADED_RE can use: some "Downloaded from "
\* ends before j (".*" may be empty) and a URL starts right after the ": ".
ColonPositions(line) ==
    {j \in 1..Len(line) :
        /\ StartsWith(From(line, j), ": ")
        /\ UrlAt(line, j + 2)
        /\ \E i \in 1..Len(line) :
              StartsWith(From(line, i), "Downloaded from ") /\ i + 16 <= j}

\* DOWNLOADED_RE.search(line): is there a match
Matches(line) == ColonPositions(line) # {}

\* match.group(1): ".*" is greedy, so the last usable ": " is taken
Group1(line) == TokenAt(line, SetMax(ColonPositions(line)) + 2)

\* The URLs of the matching lines, in the order of the log
RECURSIVE DownloadedUrls(_)
DownloadedUrls(lines) ==
    IF lines = <<>> THEN <<>>
    ELSE (IF Matches(Head(lines)) THEN <<Group1(Head(lines))>> ELSE <<>>)
         \o DownloadedUrls(Tail(lines))

Yielded(refs) == [ok |-> TRUE, refs |-> refs, error |-> "none"]
YieldError(refs, kind) == [ok |-> FALSE, refs |-> refs, error |-> kind]

\* The generator consumed to its end: the references yielded, and the
\* ValueError of the first URL parse_url refuses (nothing is yielded after it).
RECURSIVE ParseAll(_, _)
ParseAll(urls, done) ==
    IF urls = <<>> THEN Yielded(done)
    ELSE LET a == parse_url(Head(urls))
         IN  IF a.ok THEN ParseAll(Tail(urls), Append(done, a))
             ELSE YieldError(done, a.error)

\* A slip: `return` for `yield`, the scan stops at the first download line.
extract_first_only(build_log) ==
    LET urls == DownloadedUrls(build_log)
    IN  ParseAll(IF urls = <<>> THEN <<>> ELSE <<Head(urls)>>, <<>>)

extract_downloaded_artifacts(build_log) == ParseAll(DownloadedUrls(build_log), <<>>)


-----------------------------------------------------------------------------
(* pathlib: a path is its parts; `abs` says it starts at the root *)

\* The text between the slashes of s, in order
RECURSIVE Segments(_)
Segments(s) ==
    LET sl == {i \in 1..Len(s) : Char(s, i) = "/"}
    IN  IF sl = {} THEN <<s>>
        ELSE <<SubSeq(s, 1, SetMin(sl) - 1)>> \o Segments(From(s, SetMin(sl) + 1))

RECURSIVE DropEmptyAndDot(_)
DropEmptyAndDot(segs) ==
    IF segs = <<>> THEN <<>>
    ELSE (IF Head(segs) \in {"", "."} THEN <<>> ELSE <<Head(segs)>>)
         \o DropEmptyAndDot(Tail(segs))

\* PurePosixPath(s): empty and "." components are dropped
Path(s) == [abs |-> StartsWith(s, "/"), parts |-> DropEmptyAndDot(Segments(s))]

\* p / s: an absolute right operand replaces the left one
Join(p, s) ==
    IF Path(s).abs THEN Path(s)
    ELSE [abs |-> p.abs, parts |-> p.parts \o Path(s).parts]

\* p.name
Name(p) == IF p.parts = <<>> THEN "" ELSE p.parts[Len(p.parts)]

\* p.parent
Parent(p) ==
    IF p.parts = <<>> THEN p
    ELSE [abs |-> p.abs, parts |-> SubSeq(p.parts, 1, Len(p.parts) - 1)]

RECURSIVE JoinParts(_)
JoinParts(parts) ==
    IF parts = <<>> THEN ""
    ELSE IF Len(parts) = 1 THEN parts[1]
    ELSE parts[1] \o "/" \o JoinParts(Tail(parts))

\* p.as_posix()
as_posix(p) ==
    IF p.abs THEN "/" \o JoinParts(p.parts)
    ELSE IF p.parts = <<>> THEN "." ELSE JoinParts(p.parts)

\* working_directory / "repo": the TemporaryDirectory is /tmp/<prefix><random>
RepoDirectory ==
    [abs |-> TRUE,
     parts |-> <<"tmp", "de.mediathekview.MediathekView-dependencies-x", "repo">>]

\* The absolute path of a file of the cache, given relative to the repo directory
InRepo(rel) == Join(RepoDirectory, rel)

\* The files on disk that the run can see: those of the local repository
Files(cache) == {InRepo(f) : f \in cache}

IsFile(cache, p) == p \in Files(cache)

\* The names in directory d: its files and its subdirectories
Listing(cache, d) ==
    {f.parts[Len(d.parts) + 1] :
        f \in {g \in Files(cache) :
                 /\ Len(g.parts) > Len(d.parts)
                 /\ SubSeq(g.parts, 1, Len(d.parts)) = d.parts}}

EndsWith(s, e) == Len(s) >= Len(e) /\ From(s, Len(s) - Len(e) + 1) = e

\* fnmatch of "maven-metadata-*.xml": "*" may match nothing
MatchesPattern(name) ==
    /\ StartsWith(name, "maven-metadata-")
    /\ EndsWith(name, ".xml")
    /\ Len(name) >= Len("maven-metadata-") + Len(".xml")

\* glob.glob("maven-metadata-*.xml", root_dir=d), as a set: the order of the
\* list is that of the directory scan, which nothing fixes
Glob(cache, d) == {n \in Listing(cache, d) : MatchesPattern(n)}

\* The bytes the build left in a file of the cache
FileBytes(p) == "bytes of " \o JoinParts(p.parts)

\* hashlib.sha512(data).hexdigest()
sha512hex(data) == "sha512(" \o data \o ")"

-----------------------------------------------------------------------------
(* create_flatpak_source *)

FileSource(u, d, f, h) ==
    [ok |-> TRUE, url |-> u, dest |-> d, dest_filename |-> f, sha512 |-> h,
     error |-> "none"]
NoFileSource(kind) ==
    [ok |-> FALSE, url |-> "", dest |-> "", dest_filename |-> "", sha512 |-> "",
     error |-> kind]

\* The results the call can have: one per name glob may list first
create_flatpak_source_results(cache, url, names) ==
    LET artifact == Join(RepoDirectory, url.relpath)
        dest == as_posix(Parent(Join(Path(".m2/repository"), url.relpath)))
    IN  IF ~IsFile(cache, artifact)
        THEN {NoFileSource(IF Listing(cache, artifact) # {} \/ artifact = RepoDirectory
                           THEN "IsADirectoryError" ELSE "FileNotFoundError")}
        ELSE {FileSource(url.url, dest, n, sha512hex(FileBytes(artifact))) : n \in names}

\* A slip: the versioned sibling is looked up but the generic name is kept.
create_flatpak_source_no_override(cache, url) ==
    create_flatpak_source_results(cache, url, {Name(Join(RepoDirectory, url.relpath))})

create_flatpak_source(cache, url) ==
    LET artifact == Join(RepoDirectory, url.relpath)
        candidates == IF Name(artifact) = "maven-metadata.xml"
                      THEN Glob(cache, Parent(artifact)) ELSE {}
    IN  create_flatpak_source_results(cache, url,
            IF candidates # {} THEN candidates ELSE {Name(artifact)})

\* FlatpakFileSource.as_json
as_json(s) ==
    [type |-> "file", url |-> s.url, dest |-> s.dest,
     dest_filename |-> s.dest_filename, sha512 |-> s.sha512]


-----------------------------------------------------------------------------
(* sources.sort(key=lambda u: u.url) *)

\* The characters of the model's URLs, in code point order
CodePoints == " -./0123456789:ABCDEFGHIJKLMNOPQRSTUVWXYZ_abcdefghijklmnopqrstuvwxyz"

Ord(c) == CHOOSE i \in 1..Len(CodePoints) : Char(CodePoints, i) = c

\* a < b on str: by code point, a proper prefix first
RECURSIVE StrLess(_, _)
StrLess(a, b) ==
    IF b = "" THEN FALSE
    ELSE IF a = "" THEN TRUE
    ELSE IF Head(a) = Head(b) THEN StrLess(Tail(a), Tail(b))
    ELSE Ord(Head(a)) < Ord(Head(b))

\* x goes behind every element whose url is not greater than its own
RECURSIVE InsertByUrl(_, _)
InsertByUrl(sorted, x) ==
    IF sorted = <<>> THEN <<x>>
    ELSE IF StrLess(x.url, Head(sorted).url) THEN <<x>> \o sorted
    ELSE <<Head(sorted)>> \o InsertByUrl(Tail(sorted), x)

RECURSIVE SortFrom(_, _)
SortFrom(list, sorted) ==
    IF list = <<>> THEN sorted
    ELSE SortFrom(Tail(list), InsertByUrl(sorted, Head(list)))

\* A slip: the call to sort is missing.
sort_missing(list) == list

\* list.sort is stable
sort_by_url(list) == SortFrom(list, <<>>)

-----------------------------------------------------------------------------
(* The list comprehension of update_dependencies *)

Collected(list) == [ok |-> TRUE, sources |-> list, error |-> "none"]
CollectError(kind) == [ok |-> FALSE, sources |-> <<>>, error |-> kind]

\* The generator and create_flatpak_source take turns, one download line at a
\* time; the first exception of either ends the comprehension.
RECURSIVE CollectFrom(_, _, _)
CollectFrom(urls, cache, done) ==
    IF urls = <<>> THEN {Collected(done)}
    ELSE LET a == parse_url(Head(urls))
         IN  IF ~a.ok THEN {CollectError(a.error)}
             ELSE UNION {IF s.ok THEN CollectFrom(Tail(urls), cache, Append(done, s))
                         ELSE {CollectError(s.error)} :
                         s \in create_flatpak_source(cache, a)}

CollectSources(build_log, cache) == CollectFrom(DownloadedUrls(build_log), cache, <<>>)

\* Leaving the `with TemporaryDirectory(...)` block without its cleanup.
LeaveWithoutCleanup(w) == w

\* TemporaryDirectory.__exit__: the directory and all it holds are removed
LeaveWorkingDirectory(w) == "removed"

\* json.dump(sources, sink, indent=2, cls=SourceEncoder)
RECURSIVE Encoded(_)
Encoded(list) ==
    IF list = <<>> THEN <<>> ELSE <<as_json(Head(list))>> \o Encoded(Tail(list))

Absent == [kind |-> "absent", items |-> <<>>]
PartialFile(items) == [kind |-> "partial", items |-> items]
JsonFile(items) == [kind |-> "json", items |-> items]


-----------------------------------------------------------------------------
(* Inputs of the pipeline *)

GoodManifest ==
    << "- name: mediathekview",
       "  - type: git",
       "    url: https://github.com/mediathekview/MediathekView.git",
       "    commit: abc123" >>

PipelineManifests ==
    { GoodManifest,
      << "- name: openjdk", "  - type: git", "    url: u", "    commit: c" >>,
      << "- name: mediathekview", "  - type: git", "    commit: abc123" >> }

JarLine ==
    "[INFO] Downloaded from central: https://repo.maven.apache.org/maven2/foo/bar/1.0/bar-1.0.jar (2 kB at 50 kB/s)"
MetadataLine ==
    "Downloaded from central: https://repo.maven.apache.org/maven2/foo/bar/maven-metadata.xml"
UnknownRepoLine ==
    "Downloaded from jitpack: https://jitpack.io/foo/bar/1.0/bar-1.0.jar"
NoiseLine == "[INFO] BUILD SUCCESS"

PipelineLogLines == {JarLine, MetadataLine, UnknownRepoLine, NoiseLine}

RECURSIVE SeqsUpTo(_, _)
SeqsUpTo(S, n) ==
    IF n = 0 THEN {<<>>}
    ELSE LET shorter == SeqsUpTo(S, n - 1)
         IN  shorter \cup {Append(q, x) : q \in shorter, x \in S}

\* What the build may leave in its local repository
CacheFiles ==
    { "foo/bar/1.0/bar-1.0.jar",
      "foo/bar/maven-metadata.xml",
      "foo/bar/maven-metadata-central.xml",
      "foo/bar/maven-metadata-snapshots.xml" }

OldEntry ==
    [type |-> "file", url |-> "https://repo.maven.apache.org/maven2/old/old-0.9.jar",
     dest |-> ".m2/repository/old", dest_filename |-> "old-0.9.jar",
     sha512 |-> "sha512(old)"]

NoSource == Raise("none")
NoRepo == [made |-> FALSE, files |-> {}]
NoError == [kind |-> "none", stderr |-> ""]
Running == [by |-> "running", code |-> 0, message |-> ""]

\* The same lines in another order
Reorderings(lines) ==
    {q \in SeqsUpTo({lines[i] : i \in 1..Len(lines)}, Len(lines)) :
        /\ Len(q) = Len(lines)
        /\ \A l \in {lines[i] : i \in 1..Len(lines)} :
              Cardinality({i \in 1..Len(q) : q[i] = l})
                = Cardinality({i \in 1..Len(lines) : lines[i] = l})}

-----------------------------------------------------------------------------
(* main, run_direct and update_dependencies *)

Init ==
    /\ pc = "main"
    /\ manifest \in PipelineManifests
    /\ source = NoSource
    /\ workdir = "none"
    /\ cloned = FALSE
    /\ repo = NoRepo
    /\ building = FALSE
    /\ log = <<>>
    /\ sources = <<>>
    /\ sidecar \in {Absent, JsonFile(<<OldEntry>>)}
    /\ sidecar0 = sidecar
    /\ error = NoError
    /\ exit = Running
    /\ run = 1
    /\ build1 = [log |-> <<>>, files |-> {}]
    /\ output1 = Absent
    /\ arg = ""
    /\ ret = ""

\* An exception leaves update_dependencies (through the with block when it is
\* inside it) and run_direct, and reaches the except clauses of main.
Throw(kind, stderr) ==
    /\ error' = [kind |-> kind, stderr |-> stderr]
    /\ workdir' = IF workdir = "exists" THEN LeaveWorkingDirectory(workdir) ELSE workdir
    /\ repo' = IF workdir = "exists" THEN NoRepo ELSE repo
    /\ pc' = "raised"

\* main: the root check, the argument parser (direct mode)
MainStart ==
    /\ pc = "main"
    /\ \E euid \in {0, 1000} :
          IF euid = 0
          THEN /\ pc' = "exited"
               /\ exit' = [by |-> "sys.exit", code |-> 1,
                           message |-> "Do not run this as root!"]
          ELSE /\ pc' = "find_source"
               /\ exit' = exit
    /\ UNCHANGED <<manifest, source, workdir, cloned, repo, building, log, sources,
                   sidecar, sidecar0, error, run, build1, output1, arg, ret>>

\* run_direct: source = find_mediathekview_source(manifest)
FindSource ==
    /\ pc = "find_source"
    /\ LET r == find_mediathekview_source(manifest)
       IN  IF r.ok
           THEN /\ source' = r
                /\ pc' = "mkdtemp"
                /\ UNCHANGED <<error, workdir, repo>>
           ELSE /\ Throw(r.error, "")
                /\ source' = source
    /\ UNCHANGED <<manifest, cloned, building, log, sources, sidecar, sidecar0,
                   exit, run, build1, output1, arg, ret>>

\* update_dependencies: with TemporaryDirectory(prefix=prefix)
MakeWorkingDirectory ==
    /\ pc = "mkdtemp"
    /\ workdir' = "exists"
    /\ pc' = "clone"
    /\ UNCHANGED <<manifest, source, cloned, repo, building, log, sources, sidecar,
                   sidecar0, error, exit, run, build1, output1, arg, ret>>

\* run(git clone, check=True): its stderr is not captured
Clone ==
    /\ pc = "clone"
    /\ \E succeeded \in BOOLEAN :
          IF succeeded
          THEN /\ cloned' = TRUE
               /\ pc' = "mkdir_repo"
               /\ UNCHANGED <<error, workdir, repo>>
          ELSE /\ Throw("CalledProcessError", "")
               /\ cloned' = cloned
    /\ UNCHANGED <<manifest, source, building, log, sources, sidecar, sidecar0,
                   exit, run, build1, output1, arg, ret>>

\* repo_directory.mkdir()
MakeRepoDirectory ==
    /\ pc = "mkdir_repo"
    /\ repo' = [made |-> TRUE, files |-> {}]
    /\ pc' = "build"
    /\ UNCHANGED <<manifest, source, workdir, cloned, building, log, sources,
                   sidecar, sidecar0, error, exit, run, build1, output1, arg, ret>>

\* run(mvnw -B -Dmaven.repo.local=repo clean package, check=True,
\* capture_output=True). A second run of the script builds the same commit and
\* finds the same downloads cached, logged in any order.
Build ==
    /\ pc = "build"
    /\ building' = TRUE
    /\ \/ /\ \E stderr \in {"", "BUILD FAILURE"} : Throw("CalledProcessError", stderr)
          /\ UNCHANGED <<log, build1>>
       \/ /\ \E l \in SeqsUpTo(PipelineLogLines, MaxLogLines), c \in SUBSET CacheFiles :
                /\ run = 2 => c = build1.files /\ l \in Reorderings(build1.log)
                /\ log' = l
                /\ repo' = [made |-> TRUE, files |-> c]
                /\ build1' = IF run = 1 THEN [log |-> l, files |-> c] ELSE build1
          /\ pc' = "collect"
          /\ UNCHANGED <<error, workdir>>
    /\ UNCHANGED <<manifest, source, cloned, sources, sidecar, sidecar0, exit, run,
                   output1, arg, ret>>

\* sources = [create_flatpak_source(repo_directory, url) for url in
\*            extract_downloaded_artifacts(mvnw.stdout)]
Collect ==
    /\ pc = "collect"
    /\ \E r \in CollectSources(log, repo.files) :
          IF r.ok
          THEN /\ sources' = r.sources
               /\ pc' = "sort"
               /\ UNCHANGED <<error, workdir, repo>>
          ELSE /\ Throw(r.error, "")
               /\ sources' = sources
    /\ UNCHANGED <<manifest, source, cloned, building, log, sidecar, sidecar0, exit,
                   run, build1, output1, arg, ret>>

\* sources.sort(key=lambda u: u.url); return sources (the with block is left)
SortAndReturn ==
    /\ pc = "sort"
    /\ sources' = sort_by_url(sources)
    /\ workdir' = LeaveWorkingDirectory(workdir)
    /\ repo' = NoRepo
    /\ pc' = "open"
    /\ UNCHANGED <<manifest, source, cloned, building, log, sidecar, sidecar0, error,
                   exit, run, build1, output1, arg, ret>>

\* run_direct: with target.open("w", encoding="utf-8") as sink
OpenSidecar ==
    /\ pc = "open"
    /\ sidecar' = PartialFile(<<>>)
    /\ pc' = "dump"
    /\ UNCHANGED <<manifest, source, workdir, cloned, repo, building, log, sources,
                   sidecar0, error, exit, run, build1, output1, arg, ret>>

\* json.dump(sources, sink, ...), then main returns
Dump ==
    /\ pc = "dump"
    /\ sidecar' = JsonFile(Encoded(sources))
    /\ output1' = IF run = 1 THEN sidecar' ELSE output1
    /\ exit' = [by |-> "return", code |-> 0, message |-> ""]
    /\ pc' = "exited"
    /\ UNCHANGED <<manifest, source, workdir, cloned, repo, building, log, sources,
                   sidecar0, error, run, build1, arg, ret>>

\* The user interrupts the script (SIGINT): KeyboardInterrupt is raised where
\* the script stands. During json.dump some of the records are already written.
Interrupt ==
    /\ pc \in {"find_source", "mkdtemp", "clone", "mkdir_repo", "build", "collect",
               "sort", "open", "dump"}
    /\ Throw("KeyboardInterrupt", "")
    /\ IF pc = "dump"
       THEN \E n \in 0..Len(sources) :
               sidecar' = PartialFile(Encoded(SubSeq(sources, 1, n)))
       ELSE sidecar' = sidecar
    /\ UNCHANGED <<manifest, source, cloned, building, log, sources, sidecar0, exit,
                   run, build1, output1, arg, ret>>

\* main: except KeyboardInterrupt / except CalledProcessError; any other
\* exception leaves main and the interpreter prints its traceback
Handle ==
    /\ pc = "raised"
    /\ exit' =
         IF error.kind = "KeyboardInterrupt"
         THEN [by |-> "sys.exit", code |-> 1,
               message |-> "Interrupted, dependencies not updated!"]
         ELSE IF error.kind = "CalledProcessError"
         THEN [by |-> "sys.exit", code |-> 1,
               message |-> IF error.stderr # ""
                           THEN "Command failed with exit code 1:\n" \o error.stderr
                           ELSE "Command failed with exit code 1"]
         ELSE [by |-> "traceback", code |-> 1, message |-> error.kind]
    /\ pc' = "exited"
    /\ UNCHANGED <<manifest, source, workdir, cloned, repo, building, log, sources,
                   sidecar, sidecar0, error, run, build1, output1, arg, ret>>

\* The script is run again on the manifest it just served
Rerun ==
    /\ pc = "exited"
    /\ exit.code = 0
    /\ run = 1
    /\ run' = 2
    /\ pc' = "main"
    /\ source' = NoSource
    /\ workdir' = "none"
    /\ cloned' = FALSE
    /\ building' = FALSE
    /\ log' = <<>>
    /\ sources' = <<>>
    /\ sidecar0' = sidecar
    /\ error' = NoError
    /\ exit' = Running
    /\ UNCHANGED <<manifest, repo, sidecar, build1, output1, arg, ret>>

Next ==
    \/ MainStart
    \/ FindSource
    \/ MakeWorkingDirectory
    \/ Clone
    \/ MakeRepoDirectory
    \/ Build
    \/ Collect
    \/ SortAndReturn
    \/ OpenSidecar
    \/ Dump
    \/ Interrupt
    \/ Handle

Spec == Init /\ [][Next]_vars

NextRerun == Next \/ Rerun

SpecRerun == Init /\ [][NextRerun]_vars


-----------------------------------------------------------------------------
(* Specifications of the functions, each applied to inputs drawn from a set *)

Idle ==
    /\ manifest = <<>>
    /\ source = NoSource
    /\ workdir = "none"
    /\ cloned = FALSE
    /\ repo = NoRepo
    /\ building = FALSE
    /\ log = <<>>
    /\ sources = <<>>
    /\ sidecar = Absent
    /\ sidecar0 = Absent
    /\ error = NoError
    /\ exit = Running
    /\ run = 1
    /\ build1 = [log |-> <<>>, files |-> {}]
    /\ output1 = Absent

ManifestLines ==
    { "- name: mediathekview",
      "  - type: git",
      "    url: https://example.test/repo.git",
      "    commit: abc123",
      "url: https://other.test/x.git",
      "commit: def456",
      "    url:",
      "sdk: org.freedesktop.Sdk" }

InitFind ==
    /\ pc = "call"
    /\ arg \in SeqsUpTo(ManifestLines, MaxManifestLines)
    /\ ret = NoSource
    /\ Idle

CallFind ==
    /\ pc = "call"
    /\ ret' = find_mediathekview_source(arg)
    /\ pc' = "returned"
    /\ UNCHANGED <<arg, pipeline>>

SpecFind == InitFind /\ [][CallFind]_vars

UrlPrefixes ==
    { REPO_BASES[1], REPO_BASES[2], REPO_BASES[3],
      "https://repo.maven.apache.org/maven2",
      "http://repo.maven.apache.org/maven2/",
      "https://jitpack.io/",
      "" }

RECURSIVE StringsUpTo(_, _)
StringsUpTo(chars, n) ==
    IF n = 0 THEN {""}
    ELSE LET shorter == StringsUpTo(chars, n - 1)
         IN  shorter \cup {q \o c : q \in shorter, c \in chars}

InitParse ==
    /\ pc = "call"
    /\ arg \in {p \o r : p \in UrlPrefixes, r \in StringsUpTo({"a", "/", "."}, MaxRelLen)}
    /\ ret = NoArtifact("none")
    /\ Idle

CallParse ==
    /\ pc = "call"
    /\ ret' = parse_url(arg)
    /\ pc' = "returned"
    /\ UNCHANGED <<arg, pipeline>>

SpecParse == InitParse /\ [][CallParse]_vars

LogLines ==
    PipelineLogLines \cup
    { "[INFO] Downloading from central: https://repo.maven.apache.org/maven2/foo/bar/1.0/bar-1.0.jar",
      "Downloaded from snapshots: https://oss.sonatype.org/content/repositories/snapshots/foo/bar/maven-metadata.xml (1 kB)",
      "Downloaded from central:https://repo.maven.apache.org/maven2/x.jar",
      "Downloaded from mirror: http://maven.ej-technologies.com/repository/a.jar",
      "Downloaded from a: https://repo.maven.apache.org/maven2/a.jar after b: https://repo.maven.apache.org/maven2/b.jar" }

InitExtract ==
    /\ pc = "call"
    /\ arg \in SeqsUpTo(LogLines, MaxLogLines)
    /\ ret = Yielded(<<>>)
    /\ Idle

CallExtract ==
    /\ pc = "call"
    /\ ret' = extract_downloaded_artifacts(arg)
    /\ pc' = "returned"
    /\ UNCHANGED <<arg, pipeline>>

SpecExtract == InitExtract /\ [][CallExtract]_vars

CreateUrls ==
    { "https://repo.maven.apache.org/maven2/foo/bar/1.0/bar-1.0.jar",
      "https://repo.maven.apache.org/maven2/foo/bar/maven-metadata.xml",
      "https://oss.sonatype.org/content/repositories/snapshots/foo/baz/maven-metadata.xml",
      "https://repo.maven.apache.org/maven2/foo/bar/1.0/missing.jar",
      "https://repo.maven.apache.org/maven2/foo/bar/maven-metadata-central.xml",
      "https://repo.maven.apache.org/maven2/maven-metadata.xml",
      "https://repo.maven.apache.org/maven2/foo/bar/",
      "https://repo.maven.apache.org/maven2/",
      "https://repo.maven.apache.org/maven2//foo/bar/1.0/bar-1.0.jar" }

InitCreate ==
    /\ pc = "call"
    /\ arg \in [cache : SUBSET (CacheFiles \cup {"foo/baz/maven-metadata-central.xml",
                                             "maven-metadata.xml"}),
                url : {parse_url(u) : u \in CreateUrls}]
    /\ ret = NoFileSource("none")
    /\ Idle

CallCreate ==
    /\ pc = "call"
    /\ ret' \in create_flatpak_source(arg.cache, arg.url)
    /\ pc' = "returned"
    /\ UNCHANGED <<arg, pipeline>>

SpecCreate == InitCreate /\ [][CallCreate]_vars


-----------------------------------------------------------------------------
(* Properties *)

Failed == pc = "exited" /\ exit.code # 0
Succeeded == pc = "exited" /\ exit.code = 0

\* C1: a run that ends in a fatal error, or that the user interrupts at any
\* point, leaves maven-dependencies.json as it was when the run started.
C1_SidecarUntouchedUnlessSuccess == Failed => sidecar = sidecar0

\* C2: lookup, classification, process and filesystem errors are all turned by
\* main into a diagnostic message and a non-zero exit, none leaves main
\* unhandled, and an interruption gets its own message.
C2_EveryErrorConvertedByMain ==
    (pc = "exited" /\ error.kind # "none") =>
        /\ exit.by = "sys.exit"
        /\ exit.code # 0
        /\ exit.message # ""
        /\ (error.kind = "KeyboardInterrupt"
              <=> exit.message = "Interrupted, dependencies not updated!")

\* The forward scan the documentation describes: the first module marker, the
\* first git marker behind it, the first line of a field behind that.
FirstAfter(lines, from, P(_)) ==
    LET idx == {i \in (from + 1)..Len(lines) : P(strip(lines[i]))}
    IN  IF idx = {} THEN 0 ELSE SetMin(idx)

IsModuleMarker(l) == l = "- name: mediathekview"
IsGitMarker(l) == l = "- type: git"
IsUrlLine(l) == StartsWith(l, "url:")
IsCommitLine(l) == StartsWith(l, "commit:")
HasUrlValue(l) == IsUrlLine(l) /\ strip(AfterFirstColon(l)) # ""
HasCommitValue(l) == IsCommitLine(l) /\ strip(AfterFirstColon(l)) # ""

ModuleAt(lines) == FirstAfter(lines, 0, IsModuleMarker)
GitAt(lines) ==
    IF ModuleAt(lines) = 0 THEN 0 ELSE FirstAfter(lines, ModuleAt(lines), IsGitMarker)

\* C3: the source returned holds the value of the first "url:" line and of the
\* first "commit:" line behind the first "- type: git" behind the first
\* "- name: mediathekview"; lines before the markers and later occurrences
\* never decide the result.
C3_ForwardScanFirstOccurrence ==
    (pc = "returned" /\ ret.ok) =>
        LET g == GitAt(arg)
            u == IF g = 0 THEN 0 ELSE FirstAfter(arg, g, IsUrlLine)
            c == IF g = 0 THEN 0 ELSE FirstAfter(arg, g, IsCommitLine)
        IN  /\ g # 0 /\ u # 0 /\ c # 0
            /\ ret.url = strip(AfterFirstColon(strip(arg[u])))
            /\ ret.commit = strip(AfterFirstColon(strip(arg[c])))

\* C4: LookupError whenever the module marker is missing, or no git marker
\* follows it, or no non-empty url / commit value follows the git marker.
C4_LookupErrorWhenNotFoundForward ==
    (/\ pc = "returned"
     /\ \/ ModuleAt(arg) = 0
        \/ GitAt(arg) = 0
        \/ FirstAfter(arg, GitAt(arg), HasUrlValue) = 0
        \/ FirstAfter(arg, GitAt(arg), HasCommitValue) = 0)
    => (~ret.ok /\ ret.error = "LookupError")

IsPrefixOf(b, u) == \E k \in 0..Len(u) : SubSeq(u, 1, k) = b

\* C5: parse_url(u) returns url = u with the first base of REPO_BASES that is a
\* prefix of u and the rest of u as relpath (base + relpath = u), and raises
\* ValueError exactly when no base is a prefix of u.
C5_ParseUrlSplitsAtFirstKnownBase ==
    pc = "returned" =>
        LET known == {i \in 1..Len(REPO_BASES) : IsPrefixOf(REPO_BASES[i], arg)}
        IN  IF known = {}
            THEN ~ret.ok /\ ret.error = "ValueError"
            ELSE /\ ret.ok
                 /\ ret.url = arg
                 /\ ret.repo_base_url = REPO_BASES[SetMin(known)]
                 /\ ret.repo_base_url \o ret.relpath = arg
                 /\ Len(ret.relpath) = Len(arg) - Len(ret.repo_base_url)

C5_Witness ==
    /\ pc = "returned" /\ ret.ok
    /\ ret.repo_base_url = "https://oss.sonatype.org/content/repositories/snapshots/"
    /\ ret.relpath = "a/a"

\* The URL tokens a line offers: behind some "Downloaded from ", a ": ", then
\* http:// or https:// and at least one more character, up to the next space.
NoSpaceIn(t) == \A i \in 1..Len(t) : Char(t, i) # " "

UrlTokens(line) ==
    LET starts == {a \in 3..Len(line) :
                     /\ SubSeq(line, a - 2, a - 1) = ": "
                     /\ \/ StartsWith(From(line, a), "http://")
                        \/ StartsWith(From(line, a), "https://")
                     /\ \E i \in 1..(a - 2) :
                           /\ i + Len("Downloaded from ") <= a - 2
                           /\ SubSeq(line, i, i + Len("Downloaded from ") - 1)
                                = "Downloaded from "}
    IN  {SubSeq(line, ab[1], ab[2]) :
            ab \in {x \in starts \X (1..Len(line)) :
                      /\ x[2] >= x[1] + Len("http://")
                      /\ x[2] = Len(line) \/ Char(line, x[2] + 1) = " "
                      /\ NoSpaceIn(SubSeq(line, x[1], x[2]))
                      /\ StartsWith(From(line, x[1]), "https://")
                            => x[2] >= x[1] + Len("https://")}}

RECURSIVE DownloadLines(_)
DownloadLines(lines) ==
    IF lines = <<>> THEN <<>>
    ELSE (IF UrlTokens(Head(lines)) # {} THEN <<Head(lines)>> ELSE <<>>)
         \o DownloadLines(Tail(lines))

KnownUrl(u) == \E i \in 1..Len(REPO_BASES) : IsPrefixOf(REPO_BASES[i], u)

\* C6: for a log whose download URLs are all of known repositories, one
\* reference per download line, in the order of the log, repeated URLs kept,
\* each with the URL token of its line; no download line, no reference.
C6_OneReferencePerDownloadLine ==
    (/\ pc = "returned"
     /\ \A i \in 1..Len(arg) : \A t \in UrlTokens(arg[i]) : KnownUrl(t))
    => LET lines == DownloadLines(arg)
       IN  /\ ret.ok
           /\ Len(ret.refs) = Len(lines)
           /\ \A k \in 1..Len(lines) : ret.refs[k].url \in UrlTokens(lines[k])

C6_Witness ==
    /\ pc = "returned" /\ ret.ok
    /\ Len(arg) = 2 /\ arg[1] = arg[2]
    /\ Len(ret.refs) = 2 /\ ret.refs[1] = ret.refs[2]


SortedByUrl(items) ==
    \A i \in 1..Len(items) : \A j \in (i + 1)..Len(items) :
        ~StrLess(items[j].url, items[i].url)

C7_State ==
    /\ pc = "sort" =>
          /\ Len(sources) = Len(DownloadLines(log))
          /\ \A k \in 1..Len(sources) :
                sources[k].url \in UrlTokens(DownloadLines(log)[k])
    /\ Succeeded =>
          /\ sidecar = JsonFile(Encoded(sources))
          /\ SortedByUrl(sidecar.items)
          /\ Len(sidecar.items) = Len(DownloadLines(log))

C7_Step ==
    (pc = "sort" /\ pc' = "open") =>
        /\ Len(sources') = Len(sources)
        /\ \E p \in [1..Len(sources) -> 1..Len(sources)] :
              /\ \A k, l \in 1..Len(sources) : k < l => p[k] # p[l]
              /\ \A k \in 1..Len(sources) : sources'[k] = sources[p[k]]
              /\ \A k, l \in 1..Len(sources) :
                    (k < l /\ sources'[k].url = sources'[l].url) => p[k] < p[l]

\* C7: after a successful run the list in the sidecar is sorted ascending by
\* url and is a permutation of the records made of the download lines: one per
\* line, none added or dropped, records of equal url in the order of the log.
C7_SidecarSortedStablePermutation == [](C7_State) /\ [][C7_Step]_vars

C7_Witness ==
    /\ Succeeded
    /\ Len(sidecar.items) = 2
    /\ sidecar.items[1].url # sidecar.items[2].url
    /\ sidecar.items[2].url \in UrlTokens(DownloadLines(log)[1])

\* C8: two successful runs on the same commit and the same cached files, the
\* downloads logged in any order, write the same bytes.
C8_SecondRunWritesSameBytes == (Succeeded /\ run = 2) => sidecar = output1

LastSlash(s) ==
    LET sl == {i \in 1..Len(s) : Char(s, i) = "/"}
    IN  IF sl = {} THEN 0 ELSE SetMax(sl)

DirPart(s) == IF LastSlash(s) = 0 THEN "" ELSE SubSeq(s, 1, LastSlash(s) - 1)
BasePart(s) == From(s, LastSlash(s) + 1)

IsVersionedMetadata(name) ==
    \E mid \in {""} \cup {SubSeq(name, a, b) : a \in 1..Len(name), b \in 1..Len(name)} :
        name = "maven-metadata-" \o mid \o ".xml"

Siblings(cache, rel) ==
    {BasePart(f) : f \in {g \in cache : /\ DirPart(g) = DirPart(rel)
                                        /\ (LastSlash(g) = 0) = (LastSlash(rel) = 0)
                                        /\ IsVersionedMetadata(BasePart(g))}}

\* C9: for a reference whose cached file exists, dest is ".m2/repository/" with
\* the directory of relpath and dest_filename is the last segment of relpath,
\* but for "maven-metadata.xml" with a "maven-metadata-*.xml" beside it, where
\* it is the name of such a sibling; without the cached file the call fails.
C9_DestAndFilename ==
    pc = "returned" =>
        LET rel == arg.url.relpath
            sib == Siblings(arg.cache, rel)
        IN  IF rel \in arg.cache
            THEN /\ ret.ok
                 /\ ret.dest = IF LastSlash(rel) = 0 THEN ".m2/repository"
                               ELSE ".m2/repository/" \o DirPart(rel)
                 /\ IF BasePart(rel) = "maven-metadata.xml" /\ sib # {}
                    THEN ret.dest_filename \in sib
                         /\ ret.dest_filename # "maven-metadata.xml"
                    ELSE ret.dest_filename = BasePart(rel)
            ELSE ~ret.ok

C9_Witness ==
    /\ pc = "returned" /\ ret.ok
    /\ arg.url.relpath = "foo/bar/maven-metadata.xml"
    /\ ret.dest_filename = "maven-metadata-snapshots.xml"
    /\ ret.dest = ".m2/repository/foo/bar"

C10_State == pc \in {"open", "dump", "raised", "exited"} => workdir # "exists"

C10_Step ==
    (~building /\ building') =>
        /\ cloned
        /\ workdir = "exists"
        /\ repo = [made |-> TRUE, files |-> {}]

=============================================================================
